---- MODULE Spec2Model ----
(***************************************************************************)
(* State-machine model of the unfollow automation: the SafetyMonitor       *)
(* (core/safety.py), the per-item workflow run_unfollow with its           *)
(* confirmation poller (core/unfollow_worker.py) and the batch generator   *)
(* run_batch (core/batch_runner.py) driven by a consumer such as main().   *)
(*                                                                         *)
(* Text is a sequence of one-character strings.  A captured frame is       *)
(* modelled by what the code reads from it: the text OCR finds on it, the  *)
(* per-row outcome of username extraction and matching, and the result of  *)
(* template matching.                                                      *)
(***************************************************************************)
EXTENDS Integers, Sequences, FiniteSets, TLC

VARIABLES
    mode,            \* "batch": run_batch driven by a consumer; "single": one direct run_unfollow call; "safety": SafetyMonitor API
    config,          \* the configuration mapping (the keys the modelled code reads)
    usernames,       \* list returned by _read_csv
    dry_run,         \* run_batch / run_unfollow keyword argument
    template_exists, \* whether template_path.exists() holds
    log,             \* the session log file
    monitor,         \* the SafetyMonitor object (None when run_unfollow is called without one)
    pc,              \* position of the single thread of control
    index,           \* enumerate() index of run_batch's for loop (0-based)
    screenshot,      \* run_unfollow: frame captured at the start
    button_coords,   \* run_unfollow: result of locate_following_button
    poll,            \* _confirm_unfollow: attempt counter, last_screenshot and return value
    result,          \* the UnfollowResult of the current item
    results,         \* outcomes handed to the consumer so far, in order
    fx,              \* external effects of the item in progress or just yielded (counters of calls)
    run,             \* external effects and evaluations of the whole run_batch call
    ret              \* return value of the last SafetyMonitor query

vars == <<mode, config, usernames, dry_run, template_exists, log, monitor, pc, index,
          screenshot, button_coords, poll, result, results, fx, run, ret>>

(***************************************************************************)
(* Bounds of the model.                                                    *)
(***************************************************************************)
MaxUsers == 2          \* length of the input list
MaxSessionCap == 2     \* largest actions_per_session tried
MaxDailyCap == 2       \* largest daily_cap tried
MaxPrior == 2          \* most unfollowed records in the log at construction
MaxSession == 3        \* SafetyMonitor API runs: cap on session_actions

(***************************************************************************)
(* Program constants.                                                      *)
(***************************************************************************)
CONFIRM_MAX_ATTEMPTS == 8
top_margin == 220
left_margin == 540
row_height == 72
button_offset_x == 520
button_offset_y == 0

None == [tag |-> "None"]
NoRet == [op |-> "none"]
Some(v) == [tag |-> "Some", val |-> v]

Max(a, b) == IF a >= b THEN a ELSE b

(***************************************************************************)
(* Text helpers.                                                           *)
(***************************************************************************)
LowerOf(c) == CASE c = "A" -> "a" [] c = "B" -> "b" [] OTHER -> c
lower(s) == [i \in 1..Len(s) |-> LowerOf(s[i])]
\* Python's `needle in haystack` on strings
Contains(haystack, needle) ==
    \E i \in 1..(Len(haystack) - Len(needle) + 1) :
        SubSeq(haystack, i, i + Len(needle) - 1) = needle

(***************************************************************************)
(* core/safety.py                                                          *)
(***************************************************************************)
RECURSIVE FirstPhrase(_, _, _)
FirstPhrase(text, phrases, i) ==
    IF i > Len(phrases) THEN None
    ELSE IF Contains(text, lower(phrases[i])) THEN Some(phrases[i])
    ELSE FirstPhrase(text, phrases, i + 1)

\* detect_block_phrase: `ocr` is the text pytesseract reads from the frame
detect_block_phrase_TextAsRead(ocr, phrases) == FirstPhrase(ocr, phrases, 1)
detect_block_phrase(ocr, phrases) == FirstPhrase(lower(ocr), phrases, 1)

\* A log entry is a JSON value: a mapping (a record of its keys) or any other
\* value, written [scalar |-> v].
IsMapping(entry) == "scalar" \notin DOMAIN entry
\* `entry.get("status") == "unfollowed"` on a mapping
StatusIsUnfollowed(entry) == "status" \in DOMAIN entry /\ entry.status = "unfollowed"

RECURSIVE CountUnfollowed(_)
CountUnfollowed(entries) ==
    IF entries = <<>> THEN 0
    ELSE (IF StatusIsUnfollowed(Head(entries)) THEN 1 ELSE 0)
         + CountUnfollowed(Tail(entries))

\* an exception leaving the function
Raised(exc) == [tag |-> "Raised", exc |-> exc]

\* _count_actions_from_log: Some(n), or the AttributeError of `entry.get` on
\* an entry that is no mapping (only JSONDecodeError is caught)
count_actions_from_log(l) ==
    IF l.kind = "missing" THEN Some(0)
    ELSE IF l.kind = "malformed" THEN Some(0)
    ELSE IF l.kind # "list" THEN Some(0)
    ELSE IF \E i \in 1..Len(l.entries) : ~IsMapping(l.entries[i])
    THEN Raised("AttributeError")
    ELSE Some(CountUnfollowed(l.entries))

\* SafetyMonitor.__init__ (when _count_actions_from_log returns)
SafetyMonitor(cfg, l) ==
    [block_phrases |-> cfg.block_phrases,
     daily_cap |-> cfg.daily_cap,
     actions_today |-> count_actions_from_log(l).val,
     session_actions |-> 0]

has_daily_capacity_Inclusive(m) ==
    IF m.daily_cap <= 0 THEN TRUE
    ELSE m.actions_today + m.session_actions <= m.daily_cap

has_daily_capacity(m) ==
    IF m.daily_cap <= 0 THEN TRUE
    ELSE m.actions_today + m.session_actions < m.daily_cap

register_result_Any(m, status) == [m EXCEPT !.session_actions = @ + 1]

register_result(m, status) ==
    IF status = "unfollowed"
    THEN [m EXCEPT !.session_actions = @ + 1]
    ELSE m

remaining_daily_quota_NoClamp(m) ==
    IF m.daily_cap <= 0 THEN None
    ELSE Some(m.daily_cap - (m.actions_today + m.session_actions))

remaining_daily_quota(m) ==
    IF m.daily_cap <= 0 THEN None
    ELSE Some(Max(m.daily_cap - (m.actions_today + m.session_actions), 0))

check_block_screenshot_Inverted(m, frame) ==
    IF m.block_phrases # <<>> THEN None
    ELSE detect_block_phrase(frame.ocr, m.block_phrases)

check_block_screenshot(m, frame) ==
    IF m.block_phrases = <<>> THEN None
    ELSE detect_block_phrase(frame.ocr, m.block_phrases)

\* Python truthiness of an Optional[str]
Truthy(opt) == opt # None /\ opt.val # <<>>

(***************************************************************************)
(* vision/locator.py: the first row, top to bottom, whose extracted        *)
(* candidate matches the target decides the coordinates.  rows[i] is the   *)
(* outcome for row i of _extract_username and of the match decision:       *)
(* "none" (no text extracted), "miss" (text that does not match the        *)
(* target), "hit" (text that matches).                                     *)
(***************************************************************************)
RowTop(i) == top_margin + (i - 1) * row_height

RECURSIVE ScanRows(_, _)
ScanRows(rows, i) ==
    IF i > Len(rows) THEN None
    ELSE IF rows[i] = "none" THEN ScanRows(rows, i + 1)
    ELSE IF rows[i] # "hit" THEN ScanRows(rows, i + 1)
    ELSE Some(<<left_margin + button_offset_x,
                RowTop(i) + button_offset_y + row_height \div 2>>)

locate_following_button(frame) == ScanRows(frame.rows, 1)

(***************************************************************************)
(* The environment: what a capture can show.                               *)
(***************************************************************************)
ScreenTexts == { <<"o", "k">>, <<"o", "B">>, <<"a", "B">> }
RowLayouts == { <<>>, <<"none", "miss">>, <<"hit", "hit">>, <<"miss", "hit">> }
TemplateSize == <<41, 20>>
Matches == { None, Some([x |-> 100, y |-> 200, confidence |-> 90]) }
\* a frame as run_unfollow reads it (OCR text, rows) and as the poller reads it
\* (OCR text, template match)
InitialFrames == [ocr : ScreenTexts, rows : RowLayouts]
PollFrames == [ocr : ScreenTexts, match : Matches]

PhraseLists == { <<>>, << <<"A", "b">>, <<"b">> >> }

(***************************************************************************)
(* core/unfollow_worker.py                                                 *)
(***************************************************************************)
\* last_frame is the most recently captured frame, poll_matches the number of
\* poll captures on which the template matched
NoFx == [captures |-> 0, locates |-> 0, moves |-> 0, clicks |-> <<>>,
         poll_sleeps |-> 0, poll_captures |-> 0, poll_matches |-> 0,
         delay_sleeps |-> 0, last_frame |-> None]
NoPoll == [attempt |-> 0, last_screenshot |-> None, returned |-> FALSE,
           confirmed |-> FALSE, confidence |-> None, confirm_screenshot |-> None]

UnfollowResult(u, status, details) ==
    [username |-> u, status |-> status, details |-> details]

to_dict(r) == [username |-> r.username, status |-> r.status, details |-> r.details]

CurrentUsername == IF mode = "batch" THEN usernames[index + 1] ELSE "u1"

\* `return UnfollowResult(...)` from run_unfollow: the locals of the call are
\* gone; in run_batch the value is yielded to the consumer at once
Return(r) ==
    /\ result' = r
    /\ screenshot' = None
    /\ button_coords' = None
    /\ poll' = NoPoll
    /\ IF mode = "batch"
       THEN pc' = "yield" /\ results' = Append(results, r)
       ELSE pc' = "returned" /\ results' = results

\* run_unfollow, lines 110-122: capture, then the first block check
RU_Start ==
    /\ pc = "ru_start"
    /\ \E f \in InitialFrames :
        /\ fx' = [fx EXCEPT !.captures = @ + 1, !.last_frame = Some(f)]
        /\ LET block_phrase == IF monitor # None
                               THEN check_block_screenshot(monitor, f)
                               ELSE None
           IN IF monitor # None /\ Truthy(block_phrase)
              THEN Return(UnfollowResult(CurrentUsername, "blocked",
                                         [block_phrase |-> block_phrase.val]))
              ELSE /\ pc' = "ru_locate"
                   /\ screenshot' = f
                   /\ UNCHANGED <<result, results, button_coords, poll>>
    /\ UNCHANGED <<mode, config, usernames, dry_run, template_exists, log, monitor,
                   index, run, ret>>

\* run_unfollow, lines 122-138: locate, not_found, dry-run short-circuit
RU_Locate_NoDryRun ==
    /\ pc = "ru_locate"
    /\ fx' = [fx EXCEPT !.locates = @ + 1]
    /\ LET coords == locate_following_button(screenshot)
       IN IF coords = None
          THEN Return(UnfollowResult(CurrentUsername, "not_found",
                                     [message |-> "not visible"]))
          ELSE /\ pc' = "ru_click"
               /\ button_coords' = coords
               /\ UNCHANGED <<result, results, screenshot, poll>>
    /\ UNCHANGED <<mode, config, usernames, dry_run, template_exists, log, monitor,
                   index, run, ret>>

RU_Locate ==
    /\ pc = "ru_locate"
    /\ fx' = [fx EXCEPT !.locates = @ + 1]
    /\ LET coords == locate_following_button(screenshot)
       IN IF coords = None
          THEN Return(UnfollowResult(CurrentUsername, "not_found",
                                     [message |-> "not visible"]))
          ELSE IF dry_run
          THEN Return(UnfollowResult(CurrentUsername, "dry_run",
                                     [button_coords |-> coords.val]))
          ELSE /\ pc' = "ru_click"
               /\ button_coords' = coords
               /\ UNCHANGED <<result, results, screenshot, poll>>
    /\ UNCHANGED <<mode, config, usernames, dry_run, template_exists, log, monitor,
                   index, run, ret>>

\* run_unfollow, lines 140-141: move the pointer to the button and click
RU_Click_MoveOnly ==
    /\ pc = "ru_click"
    /\ fx' = [fx EXCEPT !.moves = @ + 1]
    /\ pc' = "cu_enter"
    /\ UNCHANGED <<mode, config, usernames, dry_run, template_exists, log, monitor,
                   index, screenshot, button_coords, poll, result, results, run, ret>>

RU_Click ==
    /\ pc = "ru_click"
    /\ fx' = [fx EXCEPT !.moves = @ + 1,
                        !.clicks = Append(@, [what |-> "button", at |-> button_coords.val])]
    /\ pc' = "cu_enter"
    /\ UNCHANGED <<mode, config, usernames, dry_run, template_exists, log, monitor,
                   index, screenshot, button_coords, poll, result, results, run, ret>>

\* _confirm_unfollow, lines 73-79: a missing template returns (False, None, None)
CU_Enter_NoExistsCheck ==
    /\ pc = "cu_enter"
    /\ poll' = NoPoll
    /\ pc' = "cu_round"
    /\ UNCHANGED <<mode, config, usernames, dry_run, template_exists, log, monitor,
                   index, screenshot, button_coords, result, results, fx, run, ret>>

CU_Enter ==
    /\ pc = "cu_enter"
    /\ IF ~template_exists
       THEN /\ poll' = [NoPoll EXCEPT !.returned = TRUE]
            /\ pc' = "ru_block2"
       ELSE /\ poll' = NoPoll
            /\ pc' = "cu_round"
    /\ UNCHANGED <<mode, config, usernames, dry_run, template_exists, log, monitor,
                   index, screenshot, button_coords, result, results, fx, run, ret>>

\* `for attempt in range(CONFIRM_MAX_ATTEMPTS)`: another round follows this one
MoreAttempts_Short(attempt) == attempt + 1 < CONFIRM_MAX_ATTEMPTS - 1
MoreAttempts(attempt) == attempt + 1 < CONFIRM_MAX_ATTEMPTS

\* _confirm_unfollow, lines 81-99: one round of the polling loop
CU_Round ==
    /\ pc = "cu_round"
    /\ poll.attempt < CONFIRM_MAX_ATTEMPTS
    /\ \E f \in PollFrames :
        IF f.match = None
        THEN \* `continue`; the loop ends after the last attempt
             /\ fx' = [fx EXCEPT !.poll_sleeps = @ + 1, !.poll_captures = @ + 1,
                                 !.last_frame = Some(f)]
             /\ run' = run
             /\ IF MoreAttempts(poll.attempt)
                THEN /\ poll' = [poll EXCEPT !.attempt = @ + 1, !.last_screenshot = Some(f)]
                     /\ pc' = "cu_round"
                ELSE /\ poll' = [NoPoll EXCEPT !.returned = TRUE,
                                               !.confirm_screenshot = Some(f)]
                     /\ pc' = "ru_block2"
        ELSE LET button_x == f.match.val.x + TemplateSize[1] \div 2
                 button_y == f.match.val.y + TemplateSize[2] \div 2
             IN /\ fx' = [fx EXCEPT
                            !.poll_sleeps = @ + 1,
                            !.poll_captures = @ + 1,
                            !.poll_matches = @ + 1,
                            !.last_frame = Some(f),
                            !.moves = IF dry_run THEN @ ELSE @ + 1,
                            !.clicks = IF dry_run THEN @
                                       ELSE Append(@, [what |-> "confirm",
                                                       at |-> <<button_x, button_y>>])]
                /\ run' = [run EXCEPT !.confirm_clicks = IF dry_run THEN @ ELSE @ + 1]
                /\ poll' = [NoPoll EXCEPT !.returned = TRUE,
                                          !.confirmed = TRUE,
                                          !.confidence = Some(f.match.val.confidence),
                                          !.confirm_screenshot = Some(f)]
                /\ pc' = "ru_block2"
    /\ UNCHANGED <<mode, config, usernames, dry_run, template_exists, log, monitor,
                   index, screenshot, button_coords, result, results, ret>>

\* `confirm_screenshot or screenshot`
screenshot_to_inspect(confirm_screenshot, original) ==
    IF confirm_screenshot # None THEN confirm_screenshot.val ELSE original

\* run_unfollow, lines 143-162: the second block check and confirm_not_found
RU_BlockCheck2_UnlessConfirmed ==
    /\ pc = "ru_block2"
    /\ LET inspect == screenshot_to_inspect(poll.confirm_screenshot, screenshot)
           block_phrase == IF monitor # None
                           THEN check_block_screenshot(monitor, inspect)
                           ELSE None
       IN IF poll.confirmed
          THEN /\ pc' = "ru_delay"
               /\ UNCHANGED <<result, results, screenshot, button_coords, poll>>
          ELSE IF monitor # None /\ Truthy(block_phrase)
          THEN Return(UnfollowResult(CurrentUsername, "blocked",
                                     [block_phrase |-> block_phrase.val,
                                      button_coords |-> button_coords.val]))
          ELSE Return(UnfollowResult(CurrentUsername, "confirm_not_found",
                                     [button_coords |-> button_coords.val]))
    /\ UNCHANGED <<mode, config, usernames, dry_run, template_exists, log, monitor,
                   index, fx, run, ret>>

RU_BlockCheck2 ==
    /\ pc = "ru_block2"
    /\ LET inspect == screenshot_to_inspect(poll.confirm_screenshot, screenshot)
           block_phrase == IF monitor # None
                           THEN check_block_screenshot(monitor, inspect)
                           ELSE None
       IN IF monitor # None /\ Truthy(block_phrase)
          THEN Return(UnfollowResult(CurrentUsername, "blocked",
                                     [block_phrase |-> block_phrase.val,
                                      button_coords |-> button_coords.val]))
          ELSE IF ~poll.confirmed
          THEN Return(UnfollowResult(CurrentUsername, "confirm_not_found",
                                     [button_coords |-> button_coords.val]))
          ELSE /\ pc' = "ru_delay"
               /\ UNCHANGED <<result, results, screenshot, button_coords, poll>>
    /\ UNCHANGED <<mode, config, usernames, dry_run, template_exists, log, monitor,
                   index, fx, run, ret>>

\* run_unfollow, lines 164-173: the inter-action delay, then unfollowed
RU_Delay ==
    /\ pc = "ru_delay"
    /\ fx' = [fx EXCEPT !.delay_sleeps = @ + 1]
    /\ Return(UnfollowResult(CurrentUsername, "unfollowed",
                             [button_coords |-> button_coords.val,
                              confirm_confidence |-> poll.confidence.val]))
    /\ UNCHANGED <<mode, config, usernames, dry_run, template_exists, log, monitor,
                   index, run, ret>>

NextItem == RU_Start \/ RU_Locate \/ RU_Click \/ CU_Enter \/ CU_Round
            \/ RU_BlockCheck2 \/ RU_Delay

(***************************************************************************)
(* core/batch_runner.py                                                    *)
(***************************************************************************)
load_existing_log(l) ==
    IF l.kind = "missing" THEN <<>>
    ELSE IF l.kind = "malformed" THEN <<>>
    ELSE IF l.kind = "list" THEN l.entries
    ELSE <<>>

append_log_Overwrite(l, r) ==
    [kind |-> "list", entries |-> << to_dict(r) >>]

append_log(l, r) ==
    [kind |-> "list", entries |-> Append(load_existing_log(l), to_dict(r))]

\* _should_pause: the set of values random.uniform can give, or None
should_pause_OffByOne(i, cfg) ==
    IF cfg.cooldown_every <= 0 THEN {None}
    ELSE IF i % cfg.cooldown_every # 0 THEN {None}
    ELSE {Some(d) : d \in cfg.cooldown_min_seconds ..
                          Max(cfg.cooldown_max_seconds, cfg.cooldown_min_seconds)}

should_pause(i, cfg) ==
    IF cfg.cooldown_every <= 0 THEN {None}
    ELSE IF (i + 1) % cfg.cooldown_every # 0 THEN {None}
    ELSE {Some(d) : d \in cfg.cooldown_min_seconds ..
                          Max(cfg.cooldown_max_seconds, cfg.cooldown_min_seconds)}

session_limit(cfg) == cfg.actions_per_session

\* run_batch, line 89
SessionCapReached_Late(i, cap) == i > cap
SessionCapReached(i, cap) == i >= cap

\* run_batch, line 103
StopsBatch_Never(status) == FALSE
StopsBatch(status) == status = "blocked"

\* pauses: one record for every passage of lines 99-101
\* confirm_clicks: the clicks of _confirm_unfollow over the whole run
NoRun == [capacity_checks |-> 0, started |-> 0, cooldown_sleeps |-> 0, pauses |-> <<>>,
          confirm_clicks |-> 0]

\* run_batch, lines 88-94: the head of the for loop, up to the call of run_unfollow
RB_LoopHead ==
    /\ pc = "loop"
    /\ IF index >= Len(usernames)
       THEN pc' = "done" /\ UNCHANGED <<run, fx, poll, screenshot, button_coords>>
       ELSE IF SessionCapReached(index, session_limit(config))
       THEN pc' = "done" /\ UNCHANGED <<run, fx, poll, screenshot, button_coords>>
       ELSE IF ~has_daily_capacity(monitor)
       THEN /\ pc' = "done"
            /\ run' = [run EXCEPT !.capacity_checks = @ + 1]
            /\ UNCHANGED <<fx, poll, screenshot, button_coords>>
       ELSE /\ pc' = "ru_start"
            /\ run' = [run EXCEPT !.capacity_checks = @ + 1, !.started = @ + 1]
            /\ fx' = NoFx
            /\ poll' = NoPoll
            /\ screenshot' = None
            /\ button_coords' = None
    /\ UNCHANGED <<mode, config, usernames, dry_run, template_exists, log, monitor,
                   index, result, results, ret>>

\* run_batch, line 96: the consumer asks for the next outcome, the generator resumes
RB_Register ==
    /\ pc = "yield"
    /\ monitor' = register_result(monitor, result.status)
    /\ pc' = "append"
    /\ fx' = NoFx
    /\ UNCHANGED <<mode, config, usernames, dry_run, template_exists, log, index,
                   screenshot, button_coords, poll, result, results, run, ret>>

\* run_batch, line 97
RB_AppendLog ==
    /\ pc = "append"
    /\ log' = append_log(log, result)
    /\ pc' = "pause"
    /\ UNCHANGED <<mode, config, usernames, dry_run, template_exists, monitor, index,
                   screenshot, button_coords, poll, result, results, fx, run, ret>>

\* run_batch, lines 99-104: the cooldown, then the break on a blocked outcome
RB_Pause ==
    /\ pc = "pause"
    /\ \E pause_seconds \in should_pause(index, config) :
          LET sleeps == pause_seconds # None /\ pause_seconds.val # 0
          IN  run' = [run EXCEPT
                        !.cooldown_sleeps = IF sleeps THEN @ + 1 ELSE @,
                        !.pauses = Append(@, [after |-> index + 1,
                                              pause_seconds |-> pause_seconds,
                                              slept |-> sleeps])]
    /\ IF StopsBatch(result.status)
       THEN pc' = "done" /\ index' = index
       ELSE pc' = "loop" /\ index' = index + 1
    /\ UNCHANGED <<mode, config, usernames, dry_run, template_exists, log, monitor,
                   screenshot, button_coords, poll, result, results, fx, ret>>

\* the consumer drops the generator after receiving an outcome
RB_Abandon ==
    /\ pc = "yield"
    /\ pc' = "closed"
    /\ UNCHANGED <<mode, config, usernames, dry_run, template_exists, log, monitor, index,
                   screenshot, button_coords, poll, result, results, fx, run, ret>>

(***************************************************************************)
(* Initial states.                                                         *)
(***************************************************************************)
\* the input list: a prefix of a roster in which an identifier occurs twice
Roster(i) == IF i <= 2 THEN "u1" ELSE "u2"
UsernameLists == { [i \in 1..n |-> Roster(i)] : n \in 0..MaxUsers }

Configs ==
    [actions_per_session : -1..MaxSessionCap,
     daily_cap : 0..MaxDailyCap,
     block_phrases : PhraseLists,
     cooldown_every : {0, 2},
     cooldown_min_seconds : {0},
     cooldown_max_seconds : {1}]

OldEntry(status) == [username |-> "u0", status |-> status, details |-> <<>>]
\* a log with k unfollowed records among others
LogWith(k) ==
    [kind |-> "list",
     entries |-> [i \in 1..k |-> OldEntry("unfollowed")]
                 \o (IF k > 0 THEN <<OldEntry("not_found")>> ELSE <<>>)]
InitialLogs ==
    { [kind |-> "missing", entries |-> <<>>], [kind |-> "malformed", entries |-> <<>>] }
    \cup { LogWith(k) : k \in 0..MaxPrior }

Init ==
    /\ mode = "batch"
    /\ config \in Configs
    /\ usernames \in UsernameLists
    /\ dry_run \in BOOLEAN
    /\ template_exists \in BOOLEAN
    /\ log \in InitialLogs
    /\ monitor = SafetyMonitor(config, log)
    /\ pc = "loop"
    /\ index = 0
    /\ screenshot = None
    /\ button_coords = None
    /\ poll = NoPoll
    /\ result = None
    /\ results = <<>>
    /\ fx = NoFx
    /\ run = NoRun
    /\ ret = NoRet

Next == RB_LoopHead \/ NextItem \/ RB_Register \/ RB_AppendLog \/ RB_Pause \/ RB_Abandon

Spec == Init /\ [][Next]_vars

(***************************************************************************)
(* One direct call of run_unfollow, with or without a safety monitor       *)
(* (as tests/test_unfollow_worker.py calls it).                            *)
(***************************************************************************)
\* the lists of block phrases of a call: those of the batch runs and one
\* whose first phrase is the empty text
ItemPhraseLists == PhraseLists \cup { << <<>>, <<"b">> >> }
ItemConfigs ==
    [actions_per_session : {MaxSessionCap},
     daily_cap : 0..MaxDailyCap,
     block_phrases : ItemPhraseLists,
     cooldown_every : {0},
     cooldown_min_seconds : {0},
     cooldown_max_seconds : {1}]

InitItem ==
    /\ mode = "single"
    /\ config \in ItemConfigs
    /\ usernames = <<>>
    /\ dry_run \in BOOLEAN
    /\ template_exists \in BOOLEAN
    /\ log \in InitialLogs
    /\ monitor \in {None, SafetyMonitor(config, log)}
    /\ pc = "ru_start"
    /\ index = 0
    /\ screenshot = None
    /\ button_coords = None
    /\ poll = NoPoll
    /\ result = None
    /\ results = <<>>
    /\ fx = NoFx
    /\ run = NoRun
    /\ ret = NoRet

SpecItem == InitItem /\ [][NextItem]_vars

(***************************************************************************)
(* The SafetyMonitor API called in any order on a constructed monitor.     *)
(***************************************************************************)
Statuses == {"dry_run", "blocked", "not_found", "confirm_not_found", "unfollowed"}

SafetyFrame == <<mode, config, usernames, dry_run, template_exists, log, pc, index,
                 screenshot, button_coords, poll, result, results, fx, run>>
SafetyFrame_NoPc == <<mode, config, usernames, dry_run, template_exists, log, index,
                      screenshot, button_coords, poll, result, results, fx, run>>

SM_HasDailyCapacity ==
    /\ mode = "safety"
    /\ ret' = [op |-> "has_daily_capacity", val |-> has_daily_capacity(monitor)]
    /\ UNCHANGED monitor
    /\ UNCHANGED SafetyFrame

SM_RegisterResult ==
    /\ mode = "safety"
    /\ monitor.session_actions < MaxSession
    /\ \E status \in Statuses :
        /\ monitor' = register_result(monitor, status)
        /\ ret' = [op |-> "register_result", status |-> status]
    /\ UNCHANGED SafetyFrame

SM_RemainingDailyQuota ==
    /\ mode = "safety"
    /\ ret' = [op |-> "remaining_daily_quota", val |-> remaining_daily_quota(monitor)]
    /\ UNCHANGED monitor
    /\ UNCHANGED SafetyFrame

SM_CheckBlockScreenshot ==
    /\ mode = "safety"
    /\ \E f \in InitialFrames :
        ret' = [op |-> "check_block_screenshot", frame |-> f,
                val |-> check_block_screenshot(monitor, f)]
    /\ UNCHANGED monitor
    /\ UNCHANGED SafetyFrame

\* mark_daily_rollover: same_day is whether the log file's name carries today's date
mark_daily_rollover_KeepsSession(m, same_day) ==
    IF same_day THEN m
    ELSE [m EXCEPT !.actions_today = 0]

mark_daily_rollover(m, same_day) ==
    IF same_day THEN m
    ELSE [m EXCEPT !.actions_today = 0, !.session_actions = 0]

SM_MarkDailyRollover ==
    /\ mode = "safety"
    /\ \E same_day \in BOOLEAN :
        /\ monitor' = mark_daily_rollover(monitor, same_day)
        /\ ret' = [op |-> "mark_daily_rollover", same_day |-> same_day]
    /\ UNCHANGED SafetyFrame

SafetyConfigs ==
    [actions_per_session : {MaxSessionCap},
     daily_cap : -1..(MaxDailyCap + 1),
     block_phrases : PhraseLists,
     cooldown_every : {0},
     cooldown_min_seconds : {0},
     cooldown_max_seconds : {1}]

InitSafety ==
    /\ mode = "safety"
    /\ config \in SafetyConfigs
    /\ usernames = <<>>
    /\ dry_run = FALSE
    /\ template_exists = TRUE
    /\ log \in InitialLogs
    /\ monitor = SafetyMonitor(config, log)
    /\ pc = "api"
    /\ index = 0
    /\ screenshot = None
    /\ button_coords = None
    /\ poll = NoPoll
    /\ result = None
    /\ results = <<>>
    /\ fx = NoFx
    /\ run = NoRun
    /\ ret = NoRet

NextSafety == SM_HasDailyCapacity \/ SM_RegisterResult \/ SM_RemainingDailyQuota
              \/ SM_CheckBlockScreenshot \/ SM_MarkDailyRollover

SpecSafety == InitSafety /\ [][NextSafety]_vars

(***************************************************************************)
(* Construction of a SafetyMonitor over a history file of any content.     *)
(***************************************************************************)
MaxLogLen == 2         \* longest history list tried

EntryShapes == { OldEntry("unfollowed"), OldEntry("not_found"),
                 [username |-> "u0"], [scalar |-> 7] }
AnyLogs ==
    { [kind |-> "missing", entries |-> <<>>],
      [kind |-> "malformed", entries |-> <<>>],
      [kind |-> "nonlist", entries |-> <<>>] }
    \cup { [kind |-> "list", entries |-> es] :
             es \in UNION { [1..n -> EntryShapes] : n \in 0..MaxLogLen } }

\* SafetyMonitor(config, log_path): an exception of __init__ leaves no object
SM_Construct ==
    /\ mode = "construct"
    /\ pc = "construct"
    /\ IF count_actions_from_log(log).tag = "Raised"
       THEN /\ pc' = "error"
            /\ monitor' = None
            /\ ret' = [op |-> "SafetyMonitor", raised |-> count_actions_from_log(log).exc]
       ELSE /\ pc' = "constructed"
            /\ monitor' = SafetyMonitor(config, log)
            /\ ret' = [op |-> "SafetyMonitor", raised |-> "none"]
    /\ UNCHANGED SafetyFrame_NoPc

InitConstruct ==
    /\ mode = "construct"
    /\ config \in SafetyConfigs
    /\ usernames = <<>>
    /\ dry_run = FALSE
    /\ template_exists = TRUE
    /\ log \in AnyLogs
    /\ monitor = None
    /\ pc = "construct"
    /\ index = 0
    /\ screenshot = None
    /\ button_coords = None
    /\ poll = NoPoll
    /\ result = None
    /\ results = <<>>
    /\ fx = NoFx
    /\ run = NoRun
    /\ ret = NoRet

NextConstruct == SM_Construct

SpecConstruct == InitConstruct /\ [][NextConstruct]_vars

(***************************************************************************)
(* vision/locator.py: the match decision of locate_following_button on     *)
(* one row, text against text.                                             *)
(***************************************************************************)
MaxTextLen == 3        \* longest candidate and target text tried

AlnumLower == {"a", "b", "c", "d", "e", "f", "g", "h", "i", "j", "k", "l", "m",
               "n", "o", "p", "q", "r", "s", "t", "u", "v", "w", "x", "y", "z",
               "0", "1", "2", "3", "4", "5", "6", "7", "8", "9"}
IsAlnumLower(c) == c \in AlnumLower

\* str.strip()
RECURSIVE lstrip(_)
lstrip(s) == IF s # <<>> /\ Head(s) = " " THEN lstrip(Tail(s)) ELSE s
RECURSIVE rstrip(_)
rstrip(s) == IF s # <<>> /\ s[Len(s)] = " " THEN rstrip(SubSeq(s, 1, Len(s) - 1)) ELSE s
strip(s) == rstrip(lstrip(s))

\* sanitize = lambda text: re.sub(r"[^a-z0-9]", "", text.lower())
sanitize(text) == SelectSeq(lower(text), IsAlnumLower)

\* difflib.SequenceMatcher.find_longest_match without junk: the longest common
\* block of a[alo..ahi] and b[blo..bhi], the earliest in a, then the earliest in b
RECURSIVE CommonRun(_, _, _, _, _, _)
CommonRun(a, i, ahi, b, j, bhi) ==
    IF i > ahi \/ j > bhi THEN 0
    ELSE IF a[i] # b[j] THEN 0
    ELSE 1 + CommonRun(a, i + 1, ahi, b, j + 1, bhi)

find_longest_match(a, alo, ahi, b, blo, bhi) ==
    LET runs == { CommonRun(a, i, ahi, b, j, bhi) : i \in alo..ahi, j \in blo..bhi }
        size == CHOOSE k \in runs : \A r \in runs : r <= k
        besti == CHOOSE i \in alo..ahi :
                    /\ \E j \in blo..bhi : CommonRun(a, i, ahi, b, j, bhi) = size
                    /\ \A i2 \in alo..(i - 1) :
                          \A j \in blo..bhi : CommonRun(a, i2, ahi, b, j, bhi) # size
        bestj == CHOOSE j \in blo..bhi :
                    /\ CommonRun(a, besti, ahi, b, j, bhi) = size
                    /\ \A j2 \in blo..(j - 1) : CommonRun(a, besti, ahi, b, j2, bhi) # size
    IN  [a |-> besti, b |-> bestj, size |-> size]

\* the sum of the sizes of SequenceMatcher.get_matching_blocks
RECURSIVE MatchingChars(_, _, _, _, _, _)
MatchingChars(a, alo, ahi, b, blo, bhi) ==
    IF alo > ahi \/ blo > bhi THEN 0
    ELSE LET m == find_longest_match(a, alo, ahi, b, blo, bhi)
         IN  IF m.size = 0 THEN 0
             ELSE m.size
                  + MatchingChars(a, alo, m.a - 1, b, blo, m.b - 1)
                  + MatchingChars(a, m.a + m.size, ahi, b, m.b + m.size, bhi)

\* SequenceMatcher(None, a, b).ratio() >= threshold, the threshold in
\* hundredths: the ratio is 2.0 * matches / (len(a) + len(b)), 1.0 for two
\* empty texts
RatioAtLeast(a, b, threshold) ==
    IF Len(a) + Len(b) = 0 THEN 100 >= threshold
    ELSE 200 * MatchingChars(a, 1, Len(a), b, 1, Len(b)) >= threshold * (Len(a) + Len(b))

\* _is_match (difflib is always importable, so SequenceMatcher is never None)
is_match(candidate, normalized_target, threshold) ==
    IF candidate = normalized_target THEN TRUE
    ELSE RatioAtLeast(candidate, normalized_target, threshold)

\* locate_following_button, lines 204-209: match_ok for a row whose text was read
match_ok_NoProjection(detected_username, target_username, threshold) ==
    is_match(lower(strip(detected_username)), lower(strip(target_username)), threshold)

match_ok(detected_username, target_username, threshold) ==
    LET normalized_target == lower(strip(target_username))
        sanitized_target == sanitize(target_username)
        normalized_candidate == lower(strip(detected_username))
    IN  IF sanitize(normalized_candidate) = sanitized_target THEN TRUE
        ELSE is_match(normalized_candidate, normalized_target, threshold)

\* the characters tried: two letters, one of them upper case, and a dot
TextChars == {"a", "B", "."}
Texts == UNION { [1..n -> TextChars] : n \in 0..MaxTextLen }
\* read_username returns a non-empty token of [A-Za-z0-9._]+
Candidates == Texts \ {<<>>}
\* the target is a cell of the CSV; the locator strips it again
Targets == Texts \cup { <<" ">> \o t \o <<" ">> : t \in Texts }
\* ocr_match_threshold in hundredths
Thresholds == {0, 50, 75, 101}

\* one evaluation of the match decision: the row's text is `screenshot`,
\* the target usernames[1]
LM_Match ==
    /\ mode = "match"
    /\ pc = "match"
    /\ pc' = "matched"
    /\ ret' = [op |-> "match_ok",
               value |-> match_ok(screenshot, usernames[1], config.ocr_match_threshold)]
    /\ UNCHANGED <<mode, config, usernames, dry_run, template_exists, log, monitor,
                   index, screenshot, button_coords, poll, result, results, fx, run>>

InitMatch ==
    /\ mode = "match"
    /\ config \in [ocr_match_threshold : Thresholds]
    /\ usernames \in { <<t>> : t \in Targets }
    /\ dry_run = FALSE
    /\ template_exists = TRUE
    /\ log = [kind |-> "missing", entries |-> <<>>]
    /\ monitor = None
    /\ pc = "match"
    /\ index = 0
    /\ screenshot \in Candidates
    /\ button_coords = None
    /\ poll = NoPoll
    /\ result = None
    /\ results = <<>>
    /\ fx = NoFx
    /\ run = NoRun
    /\ ret = NoRet

NextMatch == LM_Match

SpecMatch == InitMatch /\ [][NextMatch]_vars


(***************************************************************************)
(* vision/locator.py: _iter_rows, one step per next() of its consumer.     *)
(* config is the geometry, screenshot the frame (its height), index the    *)
(* generator's row_index, results the rows yielded so far.                 *)
(***************************************************************************)
MaxFrameHeight == 8    \* tallest frame tried
MaxRowHeight == 3      \* largest row_height tried
MaxTopMargin == 3      \* largest top_margin tried

Min(a, b) == IF a <= b THEN a ELSE b

\* line 96
popup_bottom(geometry, frame) ==
    Min(geometry.top_margin + frame.height - geometry.top_margin, frame.height)

\* the exploration follows the generator for this many rows; a scan with
\* row_height > 0 ends before
RowIndexCap == MaxFrameHeight + 2

\* Image.crop of a box whose lower edge is above its upper edge (row_height
\* < 0): Pillow releases differ, the newer raise ValueError, the older return
\* an image
CropOutcomes(geometry) ==
    IF geometry.row_height < 0 THEN {"image", "ValueError"} ELSE {"image"}

\* lines 99-111: run to the next yield, or leave the loop
IR_Next_PartialRow ==
    /\ mode = "rows"
    /\ pc = "ir_loop"
    /\ index < RowIndexCap
    /\ LET row_top == config.top_margin + index * config.row_height
       IN  IF row_top >= popup_bottom(config, screenshot)
           THEN pc' = "ir_done" /\ UNCHANGED <<index, results>>
           ELSE /\ results' = Append(results, [top |-> row_top,
                                               bottom |-> row_top + config.row_height])
                /\ index' = index + 1
                /\ pc' = pc
    /\ UNCHANGED <<mode, config, usernames, dry_run, template_exists, log, monitor,
                   screenshot, button_coords, poll, result, fx, run, ret>>

IR_Next ==
    /\ mode = "rows"
    /\ pc = "ir_loop"
    /\ index < RowIndexCap
    /\ LET row_top == config.top_margin + index * config.row_height
       IN  IF row_top + config.row_height > popup_bottom(config, screenshot)
           THEN pc' = "ir_done" /\ UNCHANGED <<index, results>>
           ELSE \E crop \in CropOutcomes(config) :
                  IF crop = "ValueError"
                  THEN pc' = "ir_error" /\ UNCHANGED <<index, results>>
                  ELSE /\ results' = Append(results, [top |-> row_top,
                                                      bottom |-> row_top + config.row_height])
                       /\ index' = index + 1
                       /\ pc' = pc
    /\ UNCHANGED <<mode, config, usernames, dry_run, template_exists, log, monitor,
                   screenshot, button_coords, poll, result, fx, run, ret>>

Geometries == [top_margin : 0..MaxTopMargin, row_height : 1..MaxRowHeight]

InitRows ==
    /\ mode = "rows"
    /\ config \in Geometries
    /\ usernames = <<>>
    /\ dry_run = FALSE
    /\ template_exists = TRUE
    /\ log = [kind |-> "missing", entries |-> <<>>]
    /\ monitor = None
    /\ pc = "ir_loop"
    /\ index = 0
    /\ screenshot \in [height : 0..MaxFrameHeight]
    /\ button_coords = None
    /\ poll = NoPoll
    /\ result = None
    /\ results = <<>>
    /\ fx = NoFx
    /\ run = NoRun
    /\ ret = NoRet

NextRows == IR_Next

SpecRows == InitRows /\ [][NextRows]_vars

\* build_geometry passes row_height on unchecked: any integer of the
\* configuration, zero and negative ones included
AnyGeometries == [top_margin : 0..MaxTopMargin, row_height : -1..MaxRowHeight]

InitAnyRows ==
    /\ mode = "rows"
    /\ config \in AnyGeometries
    /\ usernames = <<>>
    /\ dry_run = FALSE
    /\ template_exists = TRUE
    /\ log = [kind |-> "missing", entries |-> <<>>]
    /\ monitor = None
    /\ pc = "ir_loop"
    /\ index = 0
    /\ screenshot \in [height : 0..MaxFrameHeight]
    /\ button_coords = None
    /\ poll = NoPoll
    /\ result = None
    /\ results = <<>>
    /\ fx = NoFx
    /\ run = NoRun
    /\ ret = NoRet

\* the consumer keeps asking for rows
SpecAnyRows == InitAnyRows /\ [][NextRows]_vars /\ WF_vars(IR_Next)


(***************************************************************************)
(* run_batch under every shape of the cooldown settings: a full input      *)
(* list, no caps in the way, a new log.                                    *)
(***************************************************************************)
CooldownConfigs ==
    { c \in [actions_per_session : {MaxSessionCap},
             daily_cap : {0},
             block_phrases : PhraseLists \ {<<>>},
             cooldown_every : {-1, 0, 1, 2},
             cooldown_min_seconds : {0, 1, 2},
             cooldown_max_seconds : {1, 2}] :
        c.cooldown_min_seconds # c.cooldown_max_seconds }

InitCooldown ==
    /\ mode = "batch"
    /\ config \in CooldownConfigs
    /\ usernames = [i \in 1..MaxUsers |-> Roster(i)]
    /\ dry_run \in BOOLEAN
    /\ template_exists \in BOOLEAN
    /\ log = [kind |-> "missing", entries |-> <<>>]
    /\ monitor = SafetyMonitor(config, log)
    /\ pc = "loop"
    /\ index = 0
    /\ screenshot = None
    /\ button_coords = None
    /\ poll = NoPoll
    /\ result = None
    /\ results = <<>>
    /\ fx = NoFx
    /\ run = NoRun
    /\ ret = NoRet

SpecCooldown == InitCooldown /\ [][Next]_vars


(***************************************************************************)
(* vision/locator.py: locate_following_button over rows of text, and the   *)
(* not_found return of run_unfollow.  screenshot is the sequence of what   *)
(* _extract_username reads from the rows, from the top; usernames[1] is    *)
(* the target.                                                             *)
(***************************************************************************)
MaxRows == 3           \* most rows in a frame

\* lines 201-209 for one row: no text, a text that matches, one that does not
RowClass(detected_username, target_username, threshold) ==
    IF detected_username = None THEN "none"
    ELSE IF match_ok(detected_username.val, target_username, threshold) THEN "hit"
    ELSE "miss"

RECURSIVE ScanRowsLast(_, _)
ScanRowsLast(rows, i) ==
    IF i < 1 THEN None
    ELSE IF rows[i] # "hit" THEN ScanRowsLast(rows, i - 1)
    ELSE Some(<<left_margin + button_offset_x,
                RowTop(i) + button_offset_y + row_height \div 2>>)

\* lines 186-215
locate_in_texts_LastHit(reads, target_username, threshold) ==
    ScanRowsLast([i \in 1..Len(reads) |-> RowClass(reads[i], target_username, threshold)],
                 Len(reads))

locate_in_texts(reads, target_username, threshold) ==
    ScanRows([i \in 1..Len(reads) |-> RowClass(reads[i], target_username, threshold)], 1)

RowReads == { None, Some(<<"a">>), Some(<<"a", ".">>), Some(<<"B">>) }
LocateTargets == { <<"a">>, <<"B">>, <<"a", "B">> }

\* run_unfollow, lines 122-130: locate, and the not_found return
LF_Locate ==
    /\ mode = "locate"
    /\ pc = "lf_locate"
    /\ pc' = "lf_done"
    /\ LET coords == locate_in_texts(screenshot, usernames[1], config.ocr_match_threshold)
       IN  /\ button_coords' = coords
           /\ result' = IF coords = None
                        THEN UnfollowResult(usernames[1], "not_found",
                                            [message |-> "not visible"])
                        ELSE None
    /\ UNCHANGED <<mode, config, usernames, dry_run, template_exists, log, monitor,
                   index, screenshot, poll, results, fx, run, ret>>

InitLocate ==
    /\ mode = "locate"
    /\ config \in [ocr_match_threshold : {75, 101}]
    /\ usernames \in { <<t>> : t \in LocateTargets }
    /\ dry_run = FALSE
    /\ template_exists = TRUE
    /\ log = [kind |-> "missing", entries |-> <<>>]
    /\ monitor = None
    /\ pc = "lf_locate"
    /\ index = 0
    /\ screenshot \in UNION { [1..n -> RowReads] : n \in 0..MaxRows }
    /\ button_coords = None
    /\ poll = NoPoll
    /\ result = None
    /\ results = <<>>
    /\ fx = NoFx
    /\ run = NoRun
    /\ ret = NoRet

NextLocate == LF_Locate

SpecLocate == InitLocate /\ [][NextLocate]_vars


(***************************************************************************)
(* vision/locator.py and vision/ocr_reader.py: locate_following_button     *)
(* with its image files.  screenshot is the sequence of texts the OCR      *)
(* reads from the rows, usernames[1] the target, index the row at hand,    *)
(* log what the file system allows, results the image writes attempted.    *)
(***************************************************************************)
\* what the file system allows: writing logs/debug/last_ocr_processed.png,
\* creating the directory of the debug images, writing into it
FileSystems ==
    [kind : {"fs"}, ocr_write_ok : BOOLEAN, mkdir_ok : BOOLEAN, row_write_ok : BOOLEAN]

ImageWrite(file, guarded, ok) == [file |-> file, guarded |-> guarded, ok |-> ok]

\* locate_following_button, lines 155-171: the debug directory
LD_Start ==
    /\ mode = "debug"
    /\ pc = "ld_start"
    /\ IF config.debug_capture_rows /\ ~log.mkdir_ok
       THEN pc' = "ld_error" /\ ret' = [op |-> "locate", raised |-> "OSError"]
       ELSE pc' = "ld_row" /\ ret' = ret
    /\ index' = 1
    /\ UNCHANGED <<mode, config, usernames, dry_run, template_exists, log, monitor,
                   screenshot, button_coords, poll, result, results, fx, run>>

\* read_username, line 35: the save is made whatever the debug setting and
\* outside any try
ReadUsernameWrites(fs) == << ImageWrite("last_ocr_processed", FALSE, fs.ocr_write_ok) >>

\* _extract_username, lines 137-144, and locate_following_button, lines
\* 193-200: saves inside try/except OSError, made only with a debug directory
DebugWrites(cfg, fs) ==
    IF cfg.debug_capture_rows
    THEN << ImageWrite("ocr_row", TRUE, fs.row_write_ok),
            ImageWrite("row", TRUE, fs.row_write_ok) >>
    ELSE <<>>

\* an exception leaves the function at the first failed write outside a try
Raises(writes) == \E i \in 1..Len(writes) : ~writes[i].guarded /\ ~writes[i].ok

\* locate_following_button, lines 186-215: one turn of the loop over the
\* rows, or the return after the last row
LD_Row ==
    /\ mode = "debug"
    /\ pc = "ld_row"
    /\ IF index > Len(screenshot)
       THEN /\ pc' = "ld_done"
            /\ button_coords' = None
            /\ UNCHANGED <<index, results, ret>>
       ELSE IF Raises(ReadUsernameWrites(log))
       THEN /\ pc' = "ld_error"
            /\ results' = results \o ReadUsernameWrites(log)
            /\ ret' = [op |-> "locate", raised |-> "OSError"]
            /\ UNCHANGED <<index, button_coords>>
       ELSE /\ results' = results \o ReadUsernameWrites(log) \o DebugWrites(config, log)
            /\ ret' = ret
            /\ IF RowClass(screenshot[index], usernames[1], config.ocr_match_threshold) = "hit"
               THEN /\ pc' = "ld_done"
                    /\ button_coords' = Some(<<left_margin + button_offset_x,
                                               RowTop(index) + button_offset_y
                                                   + row_height \div 2>>)
                    /\ index' = index
               ELSE /\ pc' = pc
                    /\ index' = index + 1
                    /\ button_coords' = button_coords
    /\ UNCHANGED <<mode, config, usernames, dry_run, template_exists, log, monitor,
                   screenshot, poll, result, fx, run>>

InitDebug ==
    /\ mode = "debug"
    /\ config \in [ocr_match_threshold : {75}, debug_capture_rows : BOOLEAN]
    /\ usernames \in { <<t>> : t \in LocateTargets }
    /\ dry_run = FALSE
    /\ template_exists = TRUE
    /\ log \in FileSystems
    /\ monitor = None
    /\ pc = "ld_start"
    /\ index = 0
    /\ screenshot \in UNION { [1..n -> RowReads] : n \in 0..MaxRows }
    /\ button_coords = None
    /\ poll = NoPoll
    /\ result = None
    /\ results = <<>>
    /\ fx = NoFx
    /\ run = NoRun
    /\ ret = NoRet

NextDebug == LD_Start \/ LD_Row

SpecDebug == InitDebug /\ [][NextDebug]_vars


(***************************************************************************)
(* core/safety.py: check_block_screenshot on one frame, for every list of  *)
(* phrases.  screenshot is the frame, monitor the SafetyMonitor.           *)
(***************************************************************************)
MaxPhrases == 2        \* longest list of block phrases tried

\* the phrases tried: the empty one, one in two spellings, one inside another
Phrases == { <<>>, <<"b">>, <<"B">>, <<"A", "b">>, <<"k">> }
AnyPhraseLists == UNION { [1..n -> Phrases] : n \in 0..MaxPhrases }
OcrTexts == ScreenTexts \cup { <<>>, <<"A">> }

\* check_block_screenshot, lines 80-82: pytesseract runs inside
\* detect_block_phrase only
OcrRuns(m) == IF m.block_phrases = <<>> THEN 0 ELSE 1

SB_Check ==
    /\ mode = "block"
    /\ pc = "check"
    /\ pc' = "checked"
    /\ ret' = [op |-> "check_block_screenshot",
               val |-> check_block_screenshot(monitor, screenshot),
               ocr_runs |-> OcrRuns(monitor)]
    /\ UNCHANGED <<mode, config, usernames, dry_run, template_exists, log, monitor,
                   index, screenshot, button_coords, poll, result, results, fx, run>>

InitBlock ==
    /\ mode = "block"
    /\ config \in { c \in SafetyConfigs : c.daily_cap = 0 /\ c.block_phrases = <<>> }
    /\ usernames = <<>>
    /\ dry_run = FALSE
    /\ template_exists = TRUE
    /\ log = [kind |-> "missing", entries |-> <<>>]
    /\ monitor \in { [SafetyMonitor(config, log) EXCEPT !.block_phrases = ps] :
                       ps \in AnyPhraseLists }
    /\ pc = "check"
    /\ index = 0
    /\ screenshot \in [ocr : OcrTexts, rows : {<<>>}]
    /\ button_coords = None
    /\ poll = NoPoll
    /\ result = None
    /\ results = <<>>
    /\ fx = NoFx
    /\ run = NoRun
    /\ ret = NoRet

NextBlock == SB_Check

SpecBlock == InitBlock /\ [][NextBlock]_vars


(***************************************************************************)
(* run_batch iterated to its end by the consumer, every call returning in  *)
(* its turn; the only thing that can leave run_unfollow without an outcome *)
(* is the image file read_username writes before each OCR run.             *)
(***************************************************************************)
\* run_unfollow, line 122: locate_following_button raises out of
\* read_username (ocr_reader.py line 35) on the first row it reads, when the
\* file system refuses logs/debug/last_ocr_processed.png; nothing on the
\* way up catches it, so it leaves run_unfollow and run_batch
RU_LocateRaises ==
    /\ pc = "ru_locate"
    /\ screenshot.rows # <<>>
    /\ \E fs \in FileSystems : Raises(ReadUsernameWrites(fs))
    /\ fx' = [fx EXCEPT !.locates = @ + 1]
    /\ pc' = "raised"
    /\ ret' = [op |-> "run_unfollow", raised |-> "OSError"]
    /\ UNCHANGED <<mode, config, usernames, dry_run, template_exists, log, monitor,
                   index, screenshot, button_coords, poll, result, results, run>>

NextIterated == RB_LoopHead \/ NextItem \/ RU_LocateRaises
                \/ RB_Register \/ RB_AppendLog \/ RB_Pause

\* one thread of control whose calls all return: the step at hand is taken
SpecIterated == Init /\ [][NextIterated]_vars /\ WF_vars(NextIterated)


(***************************************************************************)
(* Properties.                                                             *)
(***************************************************************************)
ItemPCs == {"ru_start", "ru_locate", "ru_click", "cu_enter", "cu_round",
            "ru_block2", "ru_delay"}
InBatch == mode = "batch"
Used(m) == m.actions_today + m.session_actions
Last(seq) == seq[Len(seq)]

\* C1: daily cap.  In a run_batch run with daily_cap > 0, has_daily_capacity()
\* has been evaluated once for every item started and once more at most (the
\* evaluation that ends the run), no item is in progress or just yielded
\* while actions_today + session_actions >= daily_cap, and if actions_today
\* <= daily_cap at construction then actions_today + session_actions <=
\* daily_cap in every state.
C1_DailyCap ==
    (InBatch /\ monitor.daily_cap > 0) =>
        /\ run.capacity_checks \in {run.started, run.started + 1}
        /\ pc \in ItemPCs => run.capacity_checks = run.started /\ run.started = index + 1
        /\ pc \in ItemPCs \cup {"yield"} => Used(monitor) < monitor.daily_cap
        /\ monitor.actions_today <= monitor.daily_cap => Used(monitor) <= monitor.daily_cap

\* C1 witness: the run ended on the daily cap, with input and session quota
\* left, after at least one unfollowed outcome of this run.
C1_Witness ==
    /\ InBatch /\ pc = "done" /\ monitor.daily_cap > 0
    /\ monitor.session_actions >= 1
    /\ Used(monitor) = monitor.daily_cap
    /\ index < Len(usernames) /\ index < config.actions_per_session
    /\ Last(results).status = "unfollowed"

\* C2: once an outcome is blocked no further item is started in that call:
\* a blocked outcome is the last one, whatever input and quota remain.
C2_BlockedIsLast ==
    InBatch =>
        \A i \in 1..Len(results) :
            results[i].status = "blocked" =>
                /\ i = Len(results)
                /\ run.started = i
                /\ pc \notin ItemPCs \cup {"loop"}

\* C2 witness: the run ended after a blocked outcome with another identifier
\* in the input and session and daily quota left for it.
C2_Witness ==
    /\ InBatch /\ pc = "done"
    /\ results # <<>> /\ Last(results).status = "blocked"
    /\ Len(results) < Len(usernames)
    /\ Len(results) < config.actions_per_session
    /\ has_daily_capacity(monitor)

PhraseOccurs(m, f) ==
    LET Occurring == {i \in 1..Len(m.block_phrases) :
                        Contains(lower(f.ocr), lower(m.block_phrases[i]))}
    IN  /\ Occurring # {}
        /\ m.block_phrases[CHOOSE i \in Occurring : \A j \in Occurring : i <= j] # <<>>

Returned == pc \in {"returned", "yield", "closed"}
InitialFrame == fx.captures = 1 /\ fx.poll_captures = 0

C5_DryRunNoPointer ==
    dry_run =>
        /\ fx.moves = 0 /\ fx.clicks = <<>>
        /\ fx.poll_sleeps = 0 /\ fx.poll_captures = 0
        /\ pc \notin {"ru_click", "cu_enter", "cu_round", "ru_block2", "ru_delay"}
        /\ (Returned /\ fx.locates = 1
            /\ locate_following_button(fx.last_frame.val) # None) =>
               /\ result.status = "dry_run"
               /\ result.details = [button_coords |->
                                       locate_following_button(fx.last_frame.val).val]

\* C5 witness: a dry run located the target in the second row.
C5_Witness ==
    /\ dry_run /\ Returned /\ result.status = "dry_run"
    /\ result.details.button_coords = <<1060, 328>>

C7_CapacityAndQuota ==
    mode = "safety" =>
        LET cap == monitor.daily_cap
            used == monitor.actions_today + monitor.session_actions
        IN /\ ret.op = "has_daily_capacity" =>
                /\ ret.val = (cap <= 0 \/ used < cap)
                /\ (cap = 3 /\ monitor.actions_today = 2 /\ monitor.session_actions = 0)
                       => ret.val = TRUE
                /\ (cap = 3 /\ monitor.actions_today = 2 /\ monitor.session_actions = 1)
                       => ret.val = FALSE
           /\ ret.op = "remaining_daily_quota" =>
                /\ (ret.val = None) = (cap <= 0)
                /\ cap > 0 => ret.val = Some(IF cap - used > 0 THEN cap - used ELSE 0)
                /\ (cap = 3 /\ monitor.actions_today = 2 /\ monitor.session_actions = 0)
                       => ret.val = Some(1)
                /\ (cap = 3 /\ monitor.actions_today = 2 /\ monitor.session_actions = 1)
                       => ret.val = Some(0)

\* C7 witness: the quota asked with cap = 3 and prior = 2 after one unfollowed
\* was registered.
C7_Witness ==
    /\ mode = "safety" /\ ret.op = "remaining_daily_quota"
    /\ monitor.daily_cap = 3 /\ monitor.actions_today = 2 /\ monitor.session_actions = 1

RECURSIVE CountStatus(_, _)
CountStatus(rs, status) ==
    IF rs = <<>> THEN 0
    ELSE (IF Head(rs).status = status THEN 1 ELSE 0) + CountStatus(Tail(rs), status)

\* the outcomes registered so far: all yielded ones but the one just yielded
Registered == IF pc \in {"yield", "closed"}
              THEN SubSeq(results, 1, Len(results) - 1)
              ELSE results

\* C8: register_result adds exactly 1 to session_actions for unfollowed and
\* changes nothing of the monitor for any other status; over a batch run
\* session_actions never decreases, actions_today and daily_cap never
\* change, and session_actions is the number of unfollowed outcomes
\* registered so far.
C8_RegisterResult ==
    /\ [](InBatch => monitor.session_actions = CountStatus(Registered, "unfollowed"))
    /\ [][(pc = "yield" /\ pc' = "append") =>
              monitor' = IF result.status = "unfollowed"
                         THEN [monitor EXCEPT !.session_actions = @ + 1]
                         ELSE monitor]_vars
    /\ [][/\ monitor'.session_actions >= monitor.session_actions
          /\ monitor'.actions_today = monitor.actions_today
          /\ monitor'.daily_cap = monitor.daily_cap]_vars

\* C8 witness: an unfollowed outcome and then a confirm_not_found outcome
\* have been registered.
C8_Witness ==
    /\ InBatch /\ pc = "append" /\ Len(results) = 2
    /\ results[1].status = "unfollowed" /\ results[2].status = "confirm_not_found"
    /\ monitor.session_actions = 1

\* C9: with the template present, a poll that never matches makes exactly
\* max_attempts (8) sleep-then-capture rounds, clicks nothing and returns
\* found=false with the last captured frame; a poll that matches on round k
\* has made exactly k captures (the match is the last one), issues exactly one
\* confirming click, and runs no further round.
C9_PollerBudget ==
    /\ fx.poll_sleeps = fx.poll_captures
    /\ pc = "cu_round" => fx.poll_matches = 0 /\ fx.poll_captures = poll.attempt
                          /\ poll.attempt < 8
    /\ (template_exists /\ fx.clicks # <<>>
        /\ pc \in {"ru_block2", "ru_delay", "returned", "yield", "closed"}) =>
           IF fx.poll_matches = 0
           THEN /\ fx.poll_captures = 8 /\ CONFIRM_MAX_ATTEMPTS = 8
                /\ fx.last_frame.val.match = None
                /\ Len(fx.clicks) = 1 /\ fx.clicks[1].what = "button" /\ fx.moves = 1
                /\ poll.returned => /\ ~poll.confirmed /\ poll.confidence = None
                                    /\ poll.confirm_screenshot = fx.last_frame
           ELSE /\ fx.poll_matches = 1
                /\ fx.poll_captures \in 1..8
                /\ fx.last_frame.val.match # None
                /\ Len(fx.clicks) = 2 /\ fx.clicks[2].what = "confirm" /\ fx.moves = 2
                /\ poll.returned => /\ poll.confirmed
                                    /\ poll.confirm_screenshot = fx.last_frame

\* C9 witness: the poller has returned after exhausting its attempts.
C9_Witness ==
    /\ pc = "ru_block2" /\ poll.returned /\ ~poll.confirmed /\ template_exists
    /\ fx.poll_captures = 8 /\ fx.poll_matches = 0

\* C9, the other case: the poller has returned after a match on round 3.
C9_WitnessMatch ==
    /\ pc = "ru_block2" /\ poll.returned /\ poll.confirmed
    /\ fx.poll_captures = 3 /\ Len(fx.clicks) = 2

\* C10 as claimed: once the poller has been entered with the template file
\* missing, the run has failed with an error: no outcome is produced for the
\* item and no further identifier is processed.
C10_MissingTemplateFailsRun ==
    (InBatch /\ ~template_exists /\ fx.clicks # <<>>) => pc \in {"cu_enter", "error"}

\* C10 amended: a missing template fails nothing.  The poller returns
\* found=false with no frame and without a sleep or a capture, the item's
\* outcome is confirm_not_found, no outcome is unfollowed, and after that
\* outcome run_batch goes on to the next identifier.
C10_MissingTemplateOutcome ==
    /\ []((InBatch /\ ~template_exists) =>
            /\ poll.returned => /\ ~poll.confirmed /\ poll.confirm_screenshot = None
                                /\ poll.confidence = None
            /\ fx.poll_sleeps = 0 /\ fx.poll_captures = 0
            /\ (Returned /\ fx.clicks # <<>>) => result.status = "confirm_not_found"
            /\ \A i \in 1..Len(results) : results[i].status # "unfollowed")
    /\ [][(InBatch /\ ~template_exists /\ pc = "pause"
           /\ result.status = "confirm_not_found") =>
              (pc' = "loop" /\ index' = index + 1)]_vars

\* C10 witness: with the template missing, a second identifier is being
\* processed after a confirm_not_found outcome that followed a click.
C10_Witness ==
    /\ InBatch /\ ~template_exists /\ pc = "ru_block2" /\ poll.returned
    /\ Len(results) = 1 /\ results[1].status = "confirm_not_found"

\* C11 as claimed: constructing a SafetyMonitor never raises, whatever the
\* history file holds (missing, not JSON, not a list, a list with entries of
\* any shape); prior is 0 for a missing or malformed history and otherwise
\* the number of entries whose status is unfollowed.
C11_ConstructionNeverFails ==
    mode = "construct" =>
        /\ pc # "error"
        /\ pc = "constructed" =>
              monitor.actions_today =
                  IF log.kind # "list" THEN 0
                  ELSE Cardinality({i \in 1..Len(log.entries) :
                                      StatusIsUnfollowed(log.entries[i])})

\* the records the log holds at its end, as many as outcomes were yielded
LogTail ==
    LET es == load_existing_log(log)
    IN  IF Len(es) < Len(results) THEN <<>>
        ELSE SubSeq(es, Len(es) - Len(results) + 1, Len(es))

\* C12 as claimed: every outcome run_batch has handed to its caller is
\* registered with the monitor and appended to the log before the next
\* identifier is started and before the batch ends, whatever the caller does
\* with it, abandoning the iteration included; the log then ends with one
\* record per processed identifier, in processing order.
C12_PerItemDurability ==
    (InBatch /\ pc \in ItemPCs \cup {"loop", "done", "closed"}) =>
        /\ LogTail = [i \in 1..Len(results) |-> to_dict(results[i])]
        /\ monitor.session_actions = CountStatus(results, "unfollowed")

\* the same for a caller that iterates to the end, as main does
C12_DurableWhenIterated ==
    (InBatch /\ pc \in ItemPCs \cup {"loop", "done"}) =>
        /\ LogTail = [i \in 1..Len(results) |-> to_dict(results[i])]
        /\ monitor.session_actions = CountStatus(results, "unfollowed")

\* C13: every outcome of run_unfollow has a status among dry_run, blocked,
\* not_found, confirm_not_found and unfollowed; dry_run is returned only in
\* dry-run mode, confirm_not_found and unfollowed only outside it, and
\* blocked only when a safety monitor was supplied.
C13_StatusSet ==
    Returned =>
        /\ result.status \in Statuses
        /\ result.status = "dry_run" => dry_run
        /\ result.status \in {"confirm_not_found", "unfollowed"} => ~dry_run
        /\ result.status = "blocked" => monitor # None

C13_Witness ==
    /\ Returned
    /\ result.status = "blocked"
    /\ monitor # None
    /\ ~dry_run
    /\ fx.locates = 1

\* C14: a row's text is accepted iff the alphanumeric-only lower-cased
\* projections of candidate and target are equal or the similarity ratio of
\* the trimmed lower-cased texts is at least the threshold; so a text matches
\* itself under every threshold, texts that differ only in punctuation or
\* case match, and texts with different projections and a ratio below the
\* threshold do not.
C14_MatchDecision ==
    (mode = "match" /\ pc = "matched") =>
        LET c == screenshot
            t == usernames[1]
            thr == config.ocr_match_threshold
            near == RatioAtLeast(lower(strip(c)), lower(strip(t)), thr)
        IN  /\ ret.value = (sanitize(c) = sanitize(t) \/ near)
            /\ c = t => ret.value
            /\ sanitize(c) = sanitize(t) => ret.value
            /\ (sanitize(c) # sanitize(t) /\ ~near) => ~ret.value

C14_Witness ==
    /\ mode = "match"
    /\ pc = "matched"
    /\ ret.value
    /\ screenshot = <<"a", ".", "B">>
    /\ usernames[1] = <<" ", "a", "B", " ">>
    /\ config.ocr_match_threshold = 101

\* a match by ratio alone
C14_WitnessRatio ==
    /\ mode = "match"
    /\ pc = "matched"
    /\ ret.value
    /\ sanitize(screenshot) # sanitize(usernames[1])
    /\ config.ocr_match_threshold = 75

\* C15: for row_height > 0 and a frame of height H, _iter_rows yields exactly
\* max(0, floor((H - top_margin) / row_height)) rows; its i-th row (from 0)
\* spans [top_margin + i * row_height, top_margin + (i + 1) * row_height), so
\* the rows are contiguous, do not overlap and none ends below H; a frame
\* with H - top_margin < row_height yields no row.
C15_RowCount ==
    (mode = "rows" /\ config.row_height > 0) =>
        LET H == screenshot.height
            n == Max(0, (H - config.top_margin) \div config.row_height)
        IN  /\ Len(results) <= n
            /\ pc = "ir_done" => Len(results) = n
            /\ \A i \in 1..Len(results) :
                  /\ results[i].top = config.top_margin + (i - 1) * config.row_height
                  /\ results[i].bottom = config.top_margin + i * config.row_height
                  /\ results[i].bottom <= H
                  /\ i > 1 => results[i].top = results[i - 1].bottom
            /\ (pc = "ir_done" /\ H - config.top_margin < config.row_height)
                  => results = <<>>

C15_Witness ==
    /\ mode = "rows"
    /\ pc = "ir_done"
    /\ Len(results) >= 2
    /\ (screenshot.height - config.top_margin) % config.row_height # 0
    /\ config.top_margin > 0

\* C16: an item that was located outside dry-run gets exactly one click on
\* the action control, before every capture of the confirmation poll; then,
\* unless the second block check hits, the outcome is unfollowed (with the
\* confidence of the match, after the inter-action delay) iff the poller
\* found the confirmation and confirm_not_found iff it did not.  An item gets
\* at most two clicks, and none when its outcome is not_found, dry_run or
\* blocked at the first block check.
C16_LocatedOutcome ==
    mode = "single" =>
        /\ Len(fx.clicks) <= 2
        /\ \A i \in 1..Len(fx.clicks) : (fx.clicks[i].what = "button") <=> (i = 1)
        /\ fx.poll_captures > 0 => fx.clicks # <<>>
        /\ pc \in {"cu_enter", "cu_round", "ru_block2", "ru_delay"} =>
              (fx.clicks # <<>> /\ fx.clicks[1].at = button_coords.val)
        /\ Returned =>
              IF \/ result.status \in {"not_found", "dry_run"}
                 \/ (result.status = "blocked" /\ fx.locates = 0)
              THEN fx.clicks = <<>>
              ELSE /\ fx.clicks[1] = [what |-> "button", at |-> result.details.button_coords]
                   /\ result.status = "unfollowed" =>
                         /\ fx.delay_sleeps = 1
                         /\ result.details.confirm_confidence
                              = fx.last_frame.val.match.val.confidence
                   /\ result.status # "unfollowed" => fx.delay_sleeps = 0
                   /\ ~(monitor # None /\ PhraseOccurs(monitor, fx.last_frame.val)) =>
                         /\ (result.status = "unfollowed") <=> (fx.poll_matches = 1)
                         /\ (result.status = "confirm_not_found") <=> (fx.poll_matches = 0)

C16_Witness ==
    /\ mode = "single"
    /\ pc = "returned"
    /\ result.status = "unfollowed"
    /\ Len(fx.clicks) = 2
    /\ fx.poll_captures = CONFIRM_MAX_ATTEMPTS
    /\ monitor # None

\* the poll ran out without a match and no block phrase showed
C16_WitnessNotConfirmed ==
    /\ mode = "single"
    /\ pc = "returned"
    /\ result.status = "confirm_not_found"
    /\ Len(fx.clicks) = 1
    /\ fx.poll_captures = CONFIRM_MAX_ATTEMPTS

\* C17 as claimed: when an item's outcome is blocked, run_batch ends right
\* after logging it, with no cooldown sleep in between, also when the
\* cooldown cadence divides the item's 1-based index.
C17_NoCooldownAfterBlocked ==
    (InBatch /\ pc = "done" /\ results # <<>> /\ Last(results).status = "blocked") =>
        \A k \in 1..Len(run.pauses) :
            run.pauses[k].after = Len(results) => ~run.pauses[k].slept

\* what the code does for a blocked item: the batch ends with that item,
\* after the cooldown step of every other item
C17_BlockedEndsAfterCooldownStep ==
    (InBatch /\ pc = "done" /\ results # <<>> /\ Last(results).status = "blocked") =>
        /\ Len(run.pauses) = Len(results)
        /\ run.started = Len(results)

\* C18: after the item of index i (from 0) run_batch sleeps a cooldown iff
\* the cadence is > 0, divides i + 1, and the drawn duration is not zero; the
\* duration lies between the configured minimum and maximum, the maximum
\* raised to the minimum when it is below it; a cadence <= 0 gives no
\* cooldown at all; and the cooldown comes after the item's outcome has been
\* registered and logged.
C18_CooldownCadence ==
    InBatch =>
        LET every == config.cooldown_every
            lo == config.cooldown_min_seconds
            hi == Max(config.cooldown_max_seconds, config.cooldown_min_seconds)
            Slept == {k \in 1..Len(run.pauses) : run.pauses[k].slept}
        IN  /\ \A k \in 1..Len(run.pauses) :
                  LET p == run.pauses[k]
                      due == every > 0 /\ k % every = 0
                  IN  /\ p.after = k
                      /\ (p.pause_seconds # None) <=> due
                      /\ p.pause_seconds # None =>
                            (lo <= p.pause_seconds.val /\ p.pause_seconds.val <= hi)
                      /\ p.slept <=> (due /\ p.pause_seconds.val # 0)
            /\ run.cooldown_sleeps = Cardinality(Slept)
            /\ every <= 0 => run.cooldown_sleeps = 0
            /\ pc \in ItemPCs \cup {"loop", "done"} => Len(run.pauses) = Len(results)
            /\ Len(run.pauses) <= Len(results)
            /\ Len(run.pauses) <= Len(load_existing_log(log))
            /\ CountStatus(SubSeq(results, 1, Len(run.pauses)), "unfollowed")
                  <= monitor.session_actions

C18_Witness ==
    /\ InBatch
    /\ config.cooldown_max_seconds < config.cooldown_min_seconds
    /\ config.cooldown_every = 2
    /\ Len(run.pauses) = 2
    /\ run.pauses[2].slept
    /\ run.pauses[2].pause_seconds = Some(config.cooldown_min_seconds)
    /\ ~run.pauses[1].slept

\* a draw of zero on a due index: no sleep
C18_WitnessZeroDraw ==
    /\ InBatch
    /\ config.cooldown_every = 1
    /\ Len(run.pauses) = 2
    /\ run.pauses[1].pause_seconds = Some(0)
    /\ run.pauses[2].slept

\* C19: with the confirmation template missing, the poller returns
\* found=false with no confidence and no frame, having slept, captured and
\* clicked nothing, and the second block check then inspects the frame
\* captured at the start of run_unfollow.
C19_MissingTemplatePoller ==
    (mode = "single" /\ ~template_exists) =>
        /\ fx.poll_sleeps = 0 /\ fx.poll_captures = 0 /\ fx.poll_matches = 0
        /\ \A i \in 1..Len(fx.clicks) : fx.clicks[i].what # "confirm"
        /\ fx.moves = Len(fx.clicks)
        /\ pc # "cu_round"
        /\ pc = "ru_block2" =>
              /\ poll = [NoPoll EXCEPT !.returned = TRUE]
              /\ fx.captures = 1
              /\ screenshot_to_inspect(poll.confirm_screenshot, screenshot)
                    = fx.last_frame.val
              /\ fx.clicks = << [what |-> "button", at |-> button_coords.val] >>

C19_Witness ==
    /\ mode = "single"
    /\ ~template_exists
    /\ pc = "ru_block2"
    /\ monitor # None
    /\ monitor.block_phrases # <<>>
    /\ poll.returned

\* the rows of the frame whose text matches the target
MatchingRows ==
    {i \in 1..Len(screenshot) :
        /\ screenshot[i] # None
        /\ match_ok(screenshot[i].val, usernames[1], config.ocr_match_threshold)}

\* C20: the locator returns the coordinates of the topmost row whose text
\* matches the target, x = left_margin + button_offset_x and y = row_top +
\* button_offset_y + row_height // 2, never those of a later matching row;
\* rows without text are passed over; the result is none, and the outcome
\* not_found, iff no row of the frame has a matching text.
C20_FirstMatchingRow ==
    (mode = "locate" /\ pc = "lf_done") =>
        /\ (button_coords = None) <=> (MatchingRows = {})
        /\ (result # None /\ result.status = "not_found") <=> (MatchingRows = {})
        /\ MatchingRows # {} =>
              LET first == CHOOSE i \in MatchingRows : \A j \in MatchingRows : i <= j
                  first_top == top_margin + (first - 1) * row_height
              IN  button_coords = Some(<<left_margin + button_offset_x,
                                         first_top + button_offset_y + row_height \div 2>>)

C20_Witness ==
    /\ mode = "locate"
    /\ pc = "lf_done"
    /\ Len(screenshot) = 3
    /\ screenshot[1] = None
    /\ MatchingRows = {2, 3}
    /\ button_coords = Some(<<1060, 328>>)

\* C21 as claimed: for every integer row_height of the configuration and
\* every frame, the iteration of _iter_rows ends: it reaches the row whose
\* bottom edge would exceed the frame height and stops there.
C21_IterRowsTerminates == <>(mode = "rows" => pc = "ir_done")

\* the same under the precondition row_height > 0
C21_TerminatesForPositive ==
    (mode = "rows" /\ config.row_height > 0) ~> (pc = "ir_done")

\* a scan with row_height <= 0 that passes the test of line 101 once passes
\* it for every later row
C21_NeverEndsForNonPositive ==
    (mode = "rows" /\ config.row_height <= 0
        /\ config.top_margin + config.row_height <= screenshot.height)
    => pc # "ir_done"

\* C22 as claimed: no failure to write a debug image, or to use its
\* directory, raises out of text extraction or location, so the result of
\* the location is the one the rows give; and with the debug setting off no
\* image write is attempted.
C22_DebugBestEffort ==
    mode = "debug" =>
        /\ pc # "ld_error"
        /\ ~config.debug_capture_rows => results = <<>>
        /\ pc = "ld_done" =>
              button_coords = locate_in_texts(screenshot, usernames[1],
                                              config.ocr_match_threshold)

\* what holds in the code: the saves of the debug directory are swallowed,
\* and a location that returns gives the result the rows give
C22_GuardedWritesSwallowed ==
    mode = "debug" =>
        /\ (log.ocr_write_ok /\ (config.debug_capture_rows => log.mkdir_ok))
              => pc # "ld_error"
        /\ pc = "ld_done" =>
              button_coords = locate_in_texts(screenshot, usernames[1],
                                              config.ocr_match_threshold)

\* C23 as claimed: of the public operations of SafetyMonitor only
\* register_result changes the counters; has_daily_capacity,
\* remaining_daily_quota, check_block_screenshot and mark_daily_rollover
\* leave actions_today, session_actions and daily_cap as they are.
C23_OnlyRegisterMutates ==
    [][(mode = "safety" /\ ret'.op # "register_result") =>
          /\ monitor'.actions_today = monitor.actions_today
          /\ monitor'.session_actions = monitor.session_actions
          /\ monitor'.daily_cap = monitor.daily_cap]_vars

\* C23 amended: the counters are changed by register_result and by
\* mark_daily_rollover only.  has_daily_capacity, remaining_daily_quota and
\* check_block_screenshot leave the whole monitor unchanged;
\* mark_daily_rollover leaves it unchanged when the log file is the one of
\* today and otherwise sets actions_today and session_actions to 0;
\* register_result adds 1 to session_actions for unfollowed and nothing
\* otherwise; no operation changes daily_cap or the block phrases.
C23_CounterMutators ==
    [][mode = "safety" =>
          /\ monitor'.daily_cap = monitor.daily_cap
          /\ monitor'.block_phrases = monitor.block_phrases
          /\ ret'.op \in {"has_daily_capacity", "remaining_daily_quota",
                          "check_block_screenshot"} => monitor' = monitor
          /\ ret'.op = "mark_daily_rollover" =>
                monitor' = IF ret'.same_day THEN monitor
                           ELSE [monitor EXCEPT !.actions_today = 0,
                                                !.session_actions = 0]
          /\ ret'.op = "register_result" =>
                monitor' = IF ret'.status = "unfollowed"
                           THEN [monitor EXCEPT !.session_actions = @ + 1]
                           ELSE monitor]_vars

\* C23 witness: a rollover on another day has reset a prior count that the
\* log gave as non-zero.
C23_Witness ==
    /\ mode = "safety"
    /\ ret.op = "mark_daily_rollover"
    /\ ~ret.same_day
    /\ count_actions_from_log(log) = Some(MaxPrior)
    /\ monitor.actions_today = 0
    /\ monitor.session_actions = 0

\* C24: check_block returns none without running the OCR when no block
\* phrase is configured; otherwise it returns, in its configured spelling,
\* the first phrase in configuration order that is a case-insensitive
\* substring of the OCR text of the frame, and none when no phrase occurs;
\* what it returns is always a substring of the OCR text.
C24_CheckBlock ==
    (mode = "block" /\ pc = "checked") =>
        LET ps == monitor.block_phrases
            text == screenshot.ocr
            Occurring == {i \in 1..Len(ps) : Contains(lower(text), lower(ps[i]))}
        IN  /\ ps = <<>> => (ret.val = None /\ ret.ocr_runs = 0)
            /\ ps # <<>> => ret.ocr_runs = 1
            /\ Occurring = {} => ret.val = None
            /\ Occurring # {} =>
                  ret.val = Some(ps[CHOOSE i \in Occurring : \A j \in Occurring : i <= j])
            /\ ret.val # None => Contains(lower(text), lower(ret.val.val))

\* C24 witness: the second phrase is returned, in its configured upper-case
\* spelling, for a text that has it in lower case after a phrase that does
\* not occur.
C24_Witness ==
    /\ mode = "block"
    /\ pc = "checked"
    /\ monitor.block_phrases = << <<"A", "b">>, <<"B">> >>
    /\ screenshot.ocr = <<"o", "B">>
    /\ ret.val = Some(<<"B">>)

\* C25: in a run_batch run that is iterated on, after the append step of
\* each item the number of records with status unfollowed in the log is
\* actions_today + session_actions, so that a SafetyMonitor constructed from
\* the log at that point starts with the prior of this run plus its session
\* count; also when the log was missing or malformed at the start.
C25_LogCounterAgreement ==
    (InBatch /\ pc \in ItemPCs \cup {"pause", "loop", "done"}) =>
        /\ Len(results) > 0 =>
              /\ log.kind = "list"
              /\ Cardinality({i \in 1..Len(log.entries) :
                                log.entries[i].status = "unfollowed"})
                    = monitor.actions_today + monitor.session_actions
        /\ count_actions_from_log(log) # Raised("AttributeError")
        /\ SafetyMonitor(config, log).actions_today
              = monitor.actions_today + monitor.session_actions

\* C25 witness: right after an append, with unfollowed records of earlier
\* runs and of this run in the log.
C25_Witness ==
    /\ InBatch
    /\ pc = "pause"
    /\ monitor.actions_today >= 1
    /\ monitor.session_actions >= 1
    /\ result.status = "unfollowed"

\* the same after the first append of a run whose log gave no prior count
C25_WitnessNewLog ==
    /\ InBatch
    /\ pc = "pause"
    /\ Len(log.entries) = 1
    /\ result.status = "unfollowed"

\* C26: in a run_batch run with daily_cap > 0 the confirming clicks
\* performed during the run never number more than max(daily_cap -
\* actions_today at the start, 0), although a confirming click followed by a
\* hit of the second block check is reported as blocked and is not counted
\* by register_result: that outcome ends the batch.
C26_ConfirmClicksWithinQuota ==
    (InBatch /\ monitor.daily_cap > 0) =>
        /\ run.confirm_clicks <= Max(monitor.daily_cap - monitor.actions_today, 0)
        /\ run.confirm_clicks - monitor.session_actions \in {0, 1}
        /\ (pc \in {"loop", "done"} /\ run.confirm_clicks > monitor.session_actions)
              => (pc = "done" /\ Last(results).status = "blocked")

\* C26 witness: the run used its whole quota in confirming clicks, the last
\* of them reported as blocked and not counted.
C26_Witness ==
    /\ InBatch
    /\ pc = "done"
    /\ monitor.daily_cap > 0
    /\ results # <<>>
    /\ Last(results).status = "blocked"
    /\ run.confirm_clicks = monitor.daily_cap - monitor.actions_today
    /\ run.confirm_clicks = monitor.session_actions + 1
    /\ monitor.session_actions >= 1


\* C27: with every external call returning and row_height > 0, each
\* run_unfollow call makes at most 1 + CONFIRM_MAX_ATTEMPTS captures and ends
\* in exactly one outcome, and a run_batch iterated to its end terminates
\* having processed at most min(number of identifiers, session cap) items
\* (none with a cap <= 0).
C27_Termination ==
    /\ [](InBatch => fx.captures + fx.poll_captures <= 1 + CONFIRM_MAX_ATTEMPTS)
    /\ [](InBatch => run.started <= Min(Len(usernames),
                                        Max(session_limit(config), 0)))
    /\ [](InBatch /\ pc \notin ItemPCs => Len(results) = run.started)
    /\ (InBatch /\ pc = "ru_start") ~> (pc = "yield")
    /\ <>(InBatch => pc = "done")

\* C27, what does hold: a call ends in one outcome or in the OSError of the
\* image write, within the capture budget, and the run ends with it
C27_OutcomeOrWriteError ==
    /\ [](InBatch => fx.captures + fx.poll_captures <= 1 + CONFIRM_MAX_ATTEMPTS)
    /\ [](InBatch => run.started <= Min(Len(usernames),
                                        Max(session_limit(config), 0)))
    /\ [](InBatch /\ pc \notin ItemPCs \cup {"raised"} => Len(results) = run.started)
    /\ [](InBatch /\ pc = "raised" => /\ ret.raised = "OSError"
                                      /\ Len(results) = run.started - 1)
    /\ (InBatch /\ pc = "ru_start") ~> (pc \in {"yield", "raised"})
    /\ <>(InBatch => pc \in {"done", "raised"})

====
